---- MODULE Spec2Model ----
(***************************************************************************)
(* A model of whoop-mcp:                                                   *)
(*   - WhoopTokenVerifier (whoop_mcp_server.py): bearer verification with  *)
(*     a TTL cache, run by concurrently served requests;                   *)
(*   - the OAuth helper server (whoop_oauth_server.py): authorize,         *)
(*     callback, refresh_token, clear_tokens and the read-only routes      *)
(*     over one persisted record;                                          *)
(*   - collect_paginated (utils.py), WhoopClient.get, _dispatch_get and    *)
(*     the tools built on them (whoop_mcp_server.py).                      *)
(* Each component has its own specification over the shared variables;     *)
(* the variables of the other components stay at their initial values.     *)
(***************************************************************************)
EXTENDS Integers, Sequences, FiniteSets, Bags, TLC

VARIABLES
    \* ---- WhoopTokenVerifier
    clock,      \* time.time() / datetime.now(), in whole ticks
    cache,      \* self._cache: token -> (expires_at, claims)
    vcalls,     \* the verify_token calls: position, locals, and what each saw
    writer,     \* history: per token, `now` of the call that stored the entry
    okStart,    \* history: per token, latest `now` of a call whose probe gave 200
    \* ---- OAuth helper server
    tokens,     \* the content of whoop_tokens.json, or NoFile
    config,     \* CLIENT_ID / CLIENT_SECRET, read once at import
    secret_key, \* app.config['SECRET_KEY']
    hcalls,     \* the requests being served (a bag): position and locals of each
    issued,     \* the upstream token endpoint: number of token sets issued
    last,       \* history: the latest step (request, answer, response, file before)
    sentStates, \* history: the state nonces /authorize has put in a redirect
    newestSaved,\* history: the newest token set a refresh has saved
    cleared,    \* history: no callback has saved since the file was last absent
    \* ---- paginator and tools
    pages,      \* the fake fetch of collect_paginated: the pages it serves
    pg,         \* collect_paginated: locals and position
    server,     \* the WHOOP API: per path, the responses it serves
    req,        \* the MCP request: tool, arguments, credentials
    tool,       \* the tool invocation: position, result, upstream calls made
    openClients \* httpx clients constructed and not yet closed

vverifier == <<clock, cache, vcalls, writer, okStart>>
voauth    == <<tokens, config, secret_key, hcalls, issued, last, sentStates, newestSaved, cleared>>
vpaginate == <<pages, pg>>
vtools    == <<server, req, tool, openClients>>
vars      == <<clock, cache, vcalls, writer, okStart,
               tokens, config, secret_key, hcalls, issued, last, sentStates, newestSaved,
               cleared,
               pages, pg, server, req, tool, openClients>>

\* Python's None, where the value is otherwise a string / an integer.
NoneStr == "<None>"
NoneInt == 0 - 1

Max(a, b) == IF a >= b THEN a ELSE b
Min(a, b) == IF a <= b THEN a ELSE b

(***************************************************************************)
(* WhoopTokenVerifier                                                      *)
(***************************************************************************)

\* Bounds of the verifier model.
MaxVerifyCalls == 3
MaxClock == 4

\* cache_ttl_s, the constructor's parameter (default 300), in ticks.
CacheTtl == 2

BearerTokens == {"tokA", "tokB"}

\* The profile probe's answers: status and whether the body has content.
ProbeReplies ==
    { [status |-> 200, content |-> TRUE],
      [status |-> 200, content |-> FALSE],
      [status |-> 401, content |-> TRUE] }

VCallIds == 1..MaxVerifyCalls

IdleVCall ==
    [st |-> "idle", token |-> NoneStr, now |-> NoneInt, probed |-> FALSE,
     status |-> NoneInt, result |-> NoneStr,
     seenWriter |-> NoneInt, seenOk |-> NoneInt]

\* `token in self._cache` and `now < expires_at`
CacheHitLate(c, token, now) == token \in DOMAIN c /\ now <= c[token].expires_at
CacheHit(c, token, now) == token \in DOMAIN c /\ now < c[token].expires_at

\* `response.status_code != 200` returns None; otherwise the token is valid
ProbeValidAny(status) == status >= 200
ProbeValid(status) == status = 200

\* `data = response.json() if response.content else {}`
ProbeClaims(reply) == IF reply.content THEN "profile" ELSE "{}"

\* `self._cache[token] = (now + self._cache_ttl_s, data)`
CacheStoreAtReturn(c, token, now, data) ==
    [k \in DOMAIN c \cup {token} |->
        IF k = token THEN [expires_at |-> clock + CacheTtl, claims |-> data]
        ELSE c[k]]
CacheStore(c, token, now, data) ==
    [k \in DOMAIN c \cup {token} |->
        IF k = token THEN [expires_at |-> now + CacheTtl, claims |-> data]
        ELSE c[k]]

InitVerifier ==
    /\ clock = 0
    /\ cache = [k \in {} |-> 0]
    /\ vcalls = [c \in VCallIds |-> IdleVCall]
    /\ writer = [k \in BearerTokens |-> NoneInt]
    /\ okStart = [k \in BearerTokens |-> NoneInt]

\* The next call to start: calls are numbered in the order they start.
NextVCall == CHOOSE c \in VCallIds :
    /\ vcalls[c].st = "idle"
    /\ \A d \in VCallIds : d < c => vcalls[d].st # "idle"

\* verify_token up to its first await: read the clock, look the token up, and
\* either return from the cache or send the probe.
VerifyStart(token) ==
    /\ \E c \in VCallIds : vcalls[c].st = "idle"
    /\ LET c == NextVCall
           hit == CacheHit(cache, token, clock)
       IN vcalls' = [vcalls EXCEPT ![c] =
              [st |-> IF hit THEN "done" ELSE "probing",
               token |-> token, now |-> clock, probed |-> ~hit,
               status |-> NoneInt,
               result |-> IF hit THEN "valid" ELSE NoneStr,
               seenWriter |-> writer[token], seenOk |-> okStart[token]]]
    /\ UNCHANGED <<clock, cache, writer, okStart>>
    /\ UNCHANGED <<voauth, vpaginate, vtools>>

\* verify_token from the probe's response to its return.
VerifyProbeReturn(c, reply) ==
    /\ vcalls[c].st = "probing"
    /\ LET token == vcalls[c].token
           now == vcalls[c].now
           ok == ProbeValid(reply.status)
       IN /\ vcalls' = [vcalls EXCEPT ![c].st = "done",
                                      ![c].status = reply.status,
                                      ![c].result = IF ok THEN "valid" ELSE "invalid"]
          /\ cache' = IF ok THEN CacheStore(cache, token, now, ProbeClaims(reply))
                      ELSE cache
          /\ writer' = IF ok THEN [writer EXCEPT ![token] = now] ELSE writer
          /\ okStart' = IF reply.status = 200
                        THEN [okStart EXCEPT ![token] = Max(okStart[token], now)]
                        ELSE okStart
    /\ UNCHANGED clock
    /\ UNCHANGED <<voauth, vpaginate, vtools>>

\* Time passes, also while probes are in flight.
Tick ==
    /\ clock < MaxClock
    /\ clock' = clock + 1
    /\ UNCHANGED <<cache, vcalls, writer, okStart>>
    /\ UNCHANGED <<voauth, vpaginate, vtools>>

(***************************************************************************)
(* OAuth helper server (Flask, one thread per request)                     *)
(***************************************************************************)

\* Bounds of the helper model: requests served at the same time, and token
\* sets the token endpoint issues.
MaxInflight == 2
MaxIssued == 2

\* `expires_in = token_data.get('expires_in', 3600)`
DefaultExpiresIn == 3600

\* secrets.token_urlsafe(8) and secrets.token_hex(16)
Nonces == {"n1"}
Keys == {"k1"}

\* Query parameters a caller can put on /callback (NoneStr: not given).
CallbackArgs ==
    { [code |-> "c1",    state |-> "n1",    error |-> NoneStr],
      [code |-> "c1",    state |-> NoneStr, error |-> NoneStr],
      [code |-> "c1",    state |-> "zz",    error |-> ""],
      [code |-> "c1",    state |-> "n1",    error |-> "access_denied"],
      [code |-> NoneStr, state |-> "n1",    error |-> "access_denied"],
      [code |-> NoneStr, state |-> NoneStr, error |-> NoneStr],
      [code |-> "",      state |-> "n1",    error |-> NoneStr] }

\* WHOOP_CLIENT_ID / WHOOP_CLIENT_SECRET as read from the environment.
Configured == [client_id |-> "id", client_secret |-> "sec"]
Configs ==
    { Configured,
      [client_id |-> NoneStr, client_secret |-> "sec"],
      [client_id |-> "id", client_secret |-> ""] }

\* Python truthiness of an optional string.
Truthy(s) == s # NoneStr /\ s # ""

\* whoop_tokens.json: missing, or one JSON object. A key that is absent from
\* the object is NoneInt here. Token strings are numbered by issue.
NoFile == [exists |-> FALSE]
TokenRecord(at, rt, ein, eat) ==
    [exists |-> TRUE, access_token |-> at, refresh_token |-> rt,
     expires_in |-> ein, expires_at |-> eat]

\* Bodies of the token endpoint's answers.
TokenBody(at, rt, ein) ==
    [kind |-> "tokens", access_token |-> at, refresh_token |-> rt, expires_in |-> ein]
EmptyObject == [kind |-> "empty"]
ErrorText == [kind |-> "text", text |-> "invalid_grant"]
NoBody == [kind |-> "none"]

\* The answers the token endpoint can give; n numbers the token set a 200
\* would issue: 200 with a token set (complete, or without refresh_token and
\* expires_in), 200 with {}, an error status, or no answer (requests raises).
RaisedStatus == NoneInt
ErrorReplies ==
    { [status |-> 200, body |-> EmptyObject],
      [status |-> 400, body |-> ErrorText],
      [status |-> RaisedStatus, body |-> NoBody] }
TokenReplies(n) ==
    { [status |-> 200, body |-> TokenBody(n, n, 60)],
      [status |-> 200, body |-> TokenBody(n, NoneInt, NoneInt)] }

NoReply == [status |-> 0, body |-> NoBody]
NoResp == [code |-> 0, kind |-> NoneStr]

IdleHCall == [st |-> "idle", op |-> NoneStr, reply |-> NoReply, gen |-> NoneInt]

\* What the latest step was: the request it served, what it sent upstream,
\* what came back, the response, and the token file before the step.
NoEvent ==
    [op |-> NoneStr, phase |-> NoneStr, code |-> NoneStr, state |-> NoneStr,
     error |-> NoneStr, exchanged |-> FALSE, sent_refresh |-> NoneInt,
     reply |-> NoReply, gen |-> NoneInt, resp |-> NoResp,
     before |-> NoFile, newestBefore |-> NoneInt]
Event(op, phase) ==
    [NoEvent EXCEPT !.op = op, !.phase = phase, !.before = tokens,
                    !.newestBefore = newestSaved]

\* jsonify({"error": ...}), code
ErrorResp(code, kind) == [code |-> code, kind |-> kind]
\* redirect(location)
Redirect(location) == [code |-> 302, kind |-> "redirect", location |-> location]

InitOAuthWith(file, cfg) ==
    /\ tokens = file
    /\ config = cfg
    /\ secret_key = NoneStr
    /\ hcalls = EmptyBag
    /\ issued = 0
    /\ last = NoEvent
    /\ sentStates = {}
    /\ newestSaved = NoneInt
    /\ cleared = ~file.exists

\* The helper starts with whatever an earlier run left in whoop_tokens.json.
InitOAuth ==
    \/ \E cfg \in Configs : InitOAuthWith(NoFile, cfg)
    \/ InitOAuthWith(TokenRecord(0, 0, 60, 60), Configured)

\* A request thread is free; a request starts and ends being served.
HasIdleHCall == BagCardinality(hcalls) < MaxInflight
Serving(h) == h \in BagToSet(hcalls)
Admit(h) == hcalls (+) SetToBag({h})
Retire(h) == hcalls (-) SetToBag({h})

\* TokenManager.save_tokens: the new file content; ok = FALSE is the except
\* branch (open() failed), which leaves the file as it was.
save_tokens_merged(file, token_data, ok) ==
    IF ~ok THEN file
    ELSE IF ~file.exists THEN token_data
    ELSE [f \in DOMAIN token_data |->
             IF f = "exists" THEN TRUE
             ELSE IF token_data[f] = NoneInt THEN file[f] ELSE token_data[f]]
save_tokens(file, token_data, ok) == IF ok THEN token_data ELSE file

\* TokenManager.clear_tokens: os.remove if the file exists.
clear_file(file, ok) == IF ok THEN NoFile ELSE file

\* `if not CLIENT_ID or not CLIENT_SECRET`
ClientConfiguredIdOnly(cfg) == Truthy(cfg.client_id)
ClientConfigured(cfg) == Truthy(cfg.client_id) /\ Truthy(cfg.client_secret)

\* TokenManager.load_tokens: the decoded file, or None when there is none.
load_tokens(file) == file

\* GET /
Index ==
    /\ HasIdleHCall
    /\ last' = [Event("index", "whole") EXCEPT
           !.resp = [code |-> 200, kind |-> "page", tokens |-> load_tokens(tokens),
                     client_configured |-> ClientConfigured(config)]]
    /\ UNCHANGED <<tokens, config, cleared, secret_key, hcalls, issued, sentStates, newestSaved>>
    /\ UNCHANGED <<vverifier, vpaginate, vtools>>

\* The text of a token. The records above carry tokens by number; the token
\* endpoint chooses their characters, and the tokens here come in three
\* lengths: longer than the cut of /tokens, exactly as long, and shorter.
PrefixLen == 20
Digits == <<"0", "1", "2", "3", "4", "5", "6", "7", "8", "9">>
TokenLen(n) ==
    CASE n % 3 = 0 -> PrefixLen + 4
      [] n % 3 = 1 -> PrefixLen
      [] OTHER -> PrefixLen \div 4
TokenText(n) == [i \in 1..TokenLen(n) |-> Digits[((n + i) % 10) + 1]]
NoText == << >>

\* `s[:PrefixLen] + "..."`: a slice stops at the end of a shorter string.
Slice(s, n) == SubSeq(s, 1, IF Len(s) < n THEN Len(s) ELSE n)
Ellipsis == <<".", ".", ".">>
Safe(n) == IF n = NoneInt THEN NoText ELSE Slice(TokenText(n), PrefixLen) \o Ellipsis

\* GET /tokens: the record with its two tokens cut to a prefix, or a message.
GetTokens ==
    /\ HasIdleHCall
    /\ LET file == load_tokens(tokens)
       IN last' = [Event("tokens", "whole") EXCEPT
              !.resp = IF file.exists
                       THEN [code |-> 200, kind |-> "safe_tokens",
                             access_token |-> Safe(file.access_token),
                             refresh_token |-> Safe(file.refresh_token),
                             expires_in |-> file.expires_in,
                             expires_at |-> file.expires_at]
                       ELSE [code |-> 200, kind |-> "no_tokens"]]
    /\ UNCHANGED <<tokens, config, cleared, secret_key, hcalls, issued, sentStates, newestSaved>>
    /\ UNCHANGED <<vverifier, vpaginate, vtools>>

\* The profile endpoint's answers to /test_api (RaisedStatus: requests raised).
TestReplies == {200, 401, RaisedStatus}

\* POST /test_api
TestApi(status) ==
    /\ HasIdleHCall
    /\ LET file == load_tokens(tokens)
           can == file.exists /\ file.access_token # NoneInt
       IN last' = [Event("test_api", "whole") EXCEPT
              !.exchanged = can,
              !.resp = IF ~can THEN ErrorResp(400, "no_access_token")
                       ELSE IF status = 200
                       THEN [code |-> 200, kind |-> "api_ok", status_code |-> status]
                       ELSE IF status = RaisedStatus
                       THEN ErrorResp(500, "api_raised")
                       ELSE [code |-> 400, kind |-> "api_failed", status |-> status]]
    /\ UNCHANGED <<tokens, config, cleared, secret_key, hcalls, issued, sentStates, newestSaved>>
    /\ UNCHANGED <<vverifier, vpaginate, vtools>>

\* GET /authorize
Authorize(nonce, key) ==
    /\ HasIdleHCall
    /\ LET okc == ClientConfigured(config)
           location == [url |-> "/oauth/oauth2/auth", response_type |-> "code",
                        client_id |-> config.client_id,
                        redirect_uri |-> "http://localhost:8080/callback",
                        scope |-> "SCOPES", state |-> nonce]
       IN /\ last' = [Event("authorize", "whole") EXCEPT
                 !.resp = IF okc THEN Redirect(location)
                          ELSE ErrorResp(400, "not_configured")]
          /\ secret_key' = IF okc THEN key ELSE secret_key
          /\ sentStates' = IF okc THEN sentStates \cup {nonce} ELSE sentStates
    /\ UNCHANGED <<tokens, config, cleared, hcalls, issued, newestSaved>>
    /\ UNCHANGED <<vverifier, vpaginate, vtools>>

\* callback, lines 187-191: which way the request goes before any exchange.
\* `state` is read from the query and takes no part in the decision.
CallbackGateErrorPresent(code, state, error) ==
    IF error # NoneStr THEN "oauth_error"
    ELSE IF ~Truthy(code) THEN "no_code"
    ELSE "exchange"
CallbackGateCodeFirst(code, state, error) ==
    IF Truthy(code) THEN "exchange"
    ELSE IF Truthy(error) THEN "oauth_error"
    ELSE "no_code"
CallbackGate(code, state, error) ==
    IF Truthy(error) THEN "oauth_error"
    ELSE IF ~Truthy(code) THEN "no_code"
    ELSE "exchange"

\* GET /callback up to the POST of exchange_code_for_tokens (or the rejection).
CallbackBegin(args) ==
    /\ HasIdleHCall
    /\ LET gate == CallbackGate(args.code, args.state, args.error)
           ev == [Event("callback", "begin") EXCEPT !.code = args.code,
                     !.state = args.state, !.error = args.error]
       IN /\ hcalls' = IF gate = "exchange"
                       THEN Admit([IdleHCall EXCEPT !.st = "sent", !.op = "callback"])
                       ELSE hcalls
          /\ last' = IF gate = "oauth_error"
                         THEN [ev EXCEPT !.resp = [code |-> 400, kind |-> "oauth_error",
                                                   error |-> args.error]]
                     ELSE IF gate = "no_code"
                         THEN [ev EXCEPT !.resp = ErrorResp(400, "no_code")]
                     ELSE [ev EXCEPT !.exchanged = TRUE]
    /\ UNCHANGED <<tokens, config, cleared, secret_key, issued, sentStates, newestSaved>>
    /\ UNCHANGED <<vverifier, vpaginate, vtools>>

\* refresh_token, line 257: `not tokens or 'refresh_token' not in tokens`
CanRefresh(file) == file.exists /\ file.refresh_token # NoneInt

\* POST /refresh_token up to its POST to the token endpoint.
RefreshBegin ==
    /\ HasIdleHCall
    /\ LET can == CanRefresh(tokens)
           ev == Event("refresh", "begin")
       IN /\ hcalls' = IF can
                       THEN Admit([IdleHCall EXCEPT !.st = "sent", !.op = "refresh"])
                       ELSE hcalls
          /\ last' = IF can
                     THEN [ev EXCEPT !.exchanged = TRUE,
                                     !.sent_refresh = tokens.refresh_token]
                     ELSE [ev EXCEPT !.resp = ErrorResp(400, "no_refresh_token")]
    /\ UNCHANGED <<tokens, config, cleared, secret_key, issued, sentStates, newestSaved>>
    /\ UNCHANGED <<vverifier, vpaginate, vtools>>

\* The token endpoint answers a pending request; a 200 with tokens issues the
\* next token set.
TokenEndpointReply(h) ==
    /\ Serving(h) /\ h.st = "sent"
    /\ \E reply \in ErrorReplies \cup
                    (IF issued < MaxIssued THEN TokenReplies(issued + 1) ELSE {}) :
        LET fresh == reply.body.kind = "tokens"
        IN /\ hcalls' = Retire(h) (+) SetToBag({[h EXCEPT !.st = "replied", !.reply = reply,
                                   !.gen = IF fresh THEN issued + 1 ELSE NoneInt]})
           /\ issued' = IF fresh THEN issued + 1 ELSE issued
           /\ last' = [Event("token_endpoint", "whole") EXCEPT !.reply = reply]
    /\ UNCHANGED <<tokens, config, cleared, secret_key, sentStates, newestSaved>>
    /\ UNCHANGED <<vverifier, vpaginate, vtools>>

\* The token set a 200 body decodes to, with expires_at added:
\* `expires_at = datetime.now() + timedelta(seconds=expires_in)`.
WithExpiry(body, now) ==
    LET ein == IF body.kind = "tokens" /\ body.expires_in # NoneInt
               THEN body.expires_in ELSE DefaultExpiresIn
    IN IF body.kind = "tokens"
       THEN TokenRecord(body.access_token, body.refresh_token, body.expires_in, now + ein)
       ELSE TokenRecord(NoneInt, NoneInt, NoneInt, now + ein)

\* exchange_code_for_tokens: the decoded body on 200, None otherwise; and
\* `if token_data:` in callback, which {} fails.
ExchangeAnyStatus(reply) == reply.status # RaisedStatus
ExchangeGotTokens(reply) == reply.status = 200 /\ reply.body.kind = "tokens"

\* GET /callback from the token endpoint's answer to the response.
CallbackReturn(h, saveOk) ==
    /\ Serving(h) /\ h.st = "replied" /\ h.op = "callback"
    /\ LET reply == h.reply
           got == ExchangeGotTokens(reply)
           token_data == WithExpiry(reply.body, clock)
       IN /\ tokens' = IF got THEN save_tokens(tokens, token_data, saveOk) ELSE tokens
          /\ last' = [Event("callback", "return") EXCEPT
                 !.reply = reply, !.gen = h.gen,
                 !.resp = IF ~got THEN ErrorResp(400, "exchange_failed")
                          ELSE IF saveOk THEN Redirect([url |-> "/?success=true"])
                          ELSE ErrorResp(500, "save_failed")]
    /\ hcalls' = Retire(h)
    /\ UNCHANGED <<config, secret_key, issued, sentStates, newestSaved>>
    /\ cleared' = IF ExchangeGotTokens(h.reply) /\ saveOk THEN FALSE ELSE cleared
    /\ UNCHANGED <<vverifier, vpaginate, vtools>>

\* refresh_token, line 274: only a 200 is decoded and saved.
RefreshAcceptsAny(reply) == reply.status # RaisedStatus
RefreshAccepts(reply) == reply.status = 200

\* refresh_token, lines 286-290: the response to a refresh that did not save.
RefreshFailure(reply) ==
    IF reply.status = RaisedStatus
    THEN [code |-> 500, kind |-> "refresh_raised"]
    ELSE [code |-> 400, kind |-> "refresh_failed",
          status |-> reply.status, body |-> reply.body]

\* POST /refresh_token from the token endpoint's answer to the response.
RefreshReturn(h, saveOk) ==
    /\ Serving(h) /\ h.st = "replied" /\ h.op = "refresh"
    /\ LET reply == h.reply
           got == RefreshAccepts(reply)
           new_tokens == WithExpiry(reply.body, clock)
           saved == got /\ saveOk
       IN /\ tokens' = IF got THEN save_tokens(tokens, new_tokens, saveOk) ELSE tokens
          /\ newestSaved' = IF saved THEN Max(newestSaved, h.gen) ELSE newestSaved
          /\ last' = [Event("refresh", "return") EXCEPT
                 !.reply = reply, !.gen = h.gen,
                 !.resp = IF ~got THEN RefreshFailure(reply)
                          ELSE IF saveOk THEN Redirect([url |-> "/?refreshed=true"])
                          ELSE ErrorResp(500, "save_failed")]
    /\ hcalls' = Retire(h)
    /\ UNCHANGED <<config, cleared, secret_key, issued, sentStates>>
    /\ UNCHANGED <<vverifier, vpaginate, vtools>>

\* POST /clear_tokens
ClearTokens(ok) ==
    /\ HasIdleHCall
    /\ last' = [Event("clear", "whole") EXCEPT
           !.resp = IF ok THEN Redirect([url |-> "/?cleared=true"])
                    ELSE ErrorResp(500, "clear_failed")]
    /\ tokens' = clear_file(tokens, ok)
    /\ UNCHANGED <<config, secret_key, hcalls, issued, sentStates, newestSaved>>
    /\ cleared' = IF ok THEN TRUE ELSE cleared
    /\ UNCHANGED <<vverifier, vpaginate, vtools>>

(***************************************************************************)
(* collect_paginated (utils.py)                                            *)
(***************************************************************************)

\* Bounds of the paginator model: pages the fake fetch is scripted with, and
\* fetch calls the model follows.
MaxPages == 3
MaxFetch == 12

\* The page bound the specification asks for (section 4.2: "default 10").
DefaultMaxPages == 10

\* Python dicts with string keys, as functions.
EmptyDict == [k \in {} |-> 0]
DictSet(d, key, v) == [k \in DOMAIN d \cup {key} |-> IF k = key THEN v ELSE d[k]]
DictDel(d, key) == [k \in DOMAIN d \ {key} |-> d[k]]

\* JSON values of a "records" field: absent, a list, a string, a number.
NoRecords == [t |-> "absent", v |-> << >>]
ListOf(v) == [t |-> "list", v |-> v]
StrOf(v) == [t |-> "str", v |-> v]
NumberValue == [t |-> "int", v |-> << >>]

\* A response as collect_paginated sees it: data.get("records"),
\* data.get("next_token"), data.get("nextToken").
Page(records, next_token, nextToken) ==
    [records |-> records, next_token |-> next_token, nextToken |-> nextToken]
EmptyData == Page(NoRecords, NoneStr, NoneStr)

RecordValues == {NoRecords, ListOf(<<"r1">>), ListOf(<<"r2", "r1">>)}
CursorPairs == { <<NoneStr, NoneStr>>, <<"c1", NoneStr>>, <<NoneStr, "c2">>,
                 <<"", "c2">> }
FakePages ==
    { Page(r, c[1], c[2]) : r \in RecordValues, c \in CursorPairs }
    \cup { Page(NumberValue, "c1", NoneStr), Page(StrOf(<<"a", "b">>), NoneStr, NoneStr),
           Page(ListOf(<<"r1">>), "", NoneStr), Page(ListOf(<<"r2">>), "c1", "c2") }

\* `isinstance(records, Sequence)`: lists and strings are sequences.
IsSequence(r) == r.t \in {"list", "str"}

\* lines 49-52: `items.extend(records)` when records is a sequence
ExtendItemsFront(items, records) ==
    IF IsSequence(records) THEN records.v \o items ELSE items
ExtendItems(items, records) ==
    IF IsSequence(records) THEN items \o records.v ELSE items

\* line 54: `data.get("next_token") or data.get("nextToken")`
NextCursorNoAlias(data) == data.next_token
NextCursor(data) ==
    IF Truthy(data.next_token) THEN data.next_token ELSE data.nextToken

\* lines 44-46: `call_params = dict(params)`, plus next_token when truthy
CallParamsNoCursor(params, next_token) == params
CallParams(params, next_token) ==
    IF Truthy(next_token) THEN DictSet(params, "next_token", next_token) ELSE params

\* lines 39-41: the locals of collect_paginated before the loop.
\* `params` is a copy of the caller's mapping, which stays as `base_params`.
\* `sent` is the history of the call_params given to fetch.
PgStart(base_params) ==
    [pc |-> "fetch", base_params |-> base_params, params |-> base_params,
     items |-> << >>, next_token |-> NoneStr, calls |-> 0, sent |-> << >>]
PgIdle == [pc |-> "idle", base_params |-> EmptyDict, params |-> EmptyDict,
           items |-> << >>, next_token |-> NoneStr, calls |-> 0, sent |-> << >>]

\* lines 48-56: the rest of one loop iteration, given what fetch returned.
PgAfterFetchStopOnEmpty(st, data) ==
    LET cursor == NextCursor(data)
    IN [st EXCEPT !.items = ExtendItems(st.items, data.records),
                  !.next_token = cursor,
                  !.calls = st.calls + 1,
                  !.sent = Append(st.sent, CallParams(st.params, st.next_token)),
                  !.pc = IF Truthy(cursor) /\ IsSequence(data.records)
                         THEN "fetch" ELSE "done"]
PgAfterFetch(st, data) ==
    LET cursor == NextCursor(data)
    IN [st EXCEPT !.items = ExtendItems(st.items, data.records),
                  !.next_token = cursor,
                  !.calls = st.calls + 1,
                  !.sent = Append(st.sent, CallParams(st.params, st.next_token)),
                  !.pc = IF Truthy(cursor) THEN "fetch" ELSE "done"]

\* The fake fetch: the n-th call gets the n-th scripted page, and calls past
\* the script keep getting the last one.
Served(script, n) == script[Min(n, Len(script))]

BaseParams == [k \in {"limit"} |-> 25]

InitPaginate ==
    /\ pages \in UNION { [1..n -> FakePages] : n \in 1..MaxPages }
    /\ pg = PgStart(BaseParams)

\* One iteration of the loop of collect_paginated.
PaginateFetch ==
    /\ pg.pc = "fetch"
    /\ pg.calls < MaxFetch
    /\ pg' = PgAfterFetch(pg, Served(pages, pg.calls + 1))
    /\ UNCHANGED pages
    /\ UNCHANGED <<vverifier, voauth, vtools>>

\* `return items`
PaginateReturn ==
    /\ pg.pc = "done"
    /\ pg' = [pg EXCEPT !.pc = "returned"]
    /\ UNCHANGED pages
    /\ UNCHANGED <<vverifier, voauth, vtools>>

(***************************************************************************)
(* WhoopClient, _dispatch_get and the tools (whoop_mcp_server.py)          *)
(***************************************************************************)

\* `limit` of the windowed queries, and the default of days_back.
PageLimit == 25
DefaultDaysBack == 7

ProfilePath == "/v2/user/profile/basic"
SleepPath == "/v2/activity/sleep"
WorkoutPath == "/v2/activity/workout"
RecoveryPath == "/v2/recovery"
CyclePath == "/v2/cycle"
Paths == {ProfilePath, SleepPath, WorkoutPath, RecoveryPath, CyclePath}

\* An upstream HTTP response: status, the X-RateLimit-Reset header (NoneStr:
\* not sent), the content-type header, and the body ("empty", "json" with the
\* object it decodes to, or "malformed").
Response(status, reset, ctype, body, data) ==
    [status |-> status, reset |-> reset, ctype |-> ctype, body |-> body, data |-> data]
JsonCtype == "application/json; charset=utf-8"
Ok(data) == Response(200, NoneStr, JsonCtype, "json", data)

\* isoformat_utc: the instant, written in UTC with a trailing Z.
isoformat_utc(t) == [at |-> t, suffix |-> "Z"]
\* days_ago: isoformat_utc(now - timedelta(days=days)), the clock counting days.
days_ago(days, now) == isoformat_utc(now - days)
\* start_of_day: isoformat_utc of the midnight that starts the day `days_back`
\* days before today; with a clock of whole days, every instant is a midnight.
start_of_day(days_back, now) == isoformat_utc(now - days_back)

\* The calendar of the clock's days: day 0 is Monday 2024-01-01, and the
\* days of the model stay within January and February 2024.
Weekday(t) == t % 7
Year(t) == 2024
Month(t) == IF t < 31 THEN 1 ELSE 2
DayOfMonth(t) == IF t < 31 THEN t + 1 ELSE t - 30

\* f"{year}-{month:02d}-{day:02d}" and the time of day that follows it.
MonthStamp(year, month, day, tail) ==
    [year |-> year, month |-> month, day |-> day, tail |-> tail]

\* get_trends, lines 283-301: the two windows of a period.
TrendWindows(period, now) ==
    IF period = "week"
    THEN LET days_since_monday == Weekday(now)
         IN [current |-> [start |-> start_of_day(days_since_monday, now),
                          end |-> isoformat_utc(now)],
             previous |-> [start |-> start_of_day(days_since_monday + 7, now),
                           end |-> days_ago(7, now)]]
    ELSE LET prev_month == IF Month(now) > 1 THEN Month(now) - 1 ELSE 12
             prev_year == IF Month(now) > 1 THEN Year(now) ELSE Year(now) - 1
         IN [current |-> [start |-> MonthStamp(Year(now), Month(now), 1, "T00:00:00Z"),
                          end |-> isoformat_utc(now)],
             previous |-> [start |-> MonthStamp(prev_year, prev_month, 1, "T00:00:00Z"),
                           end |-> MonthStamp(prev_year, prev_month, DayOfMonth(now),
                                              "T23:59:59Z")]]

\* A date the caller wrote: kept as text, completed with a time of day.
DateText(text, tail) == [text |-> text, tail |-> tail]
\* `"T" in start_date`: the caller's dates here are plain dates or full stamps.
HasTime(text) == text \in {"2025-01-02T03:04:05Z"}

\* get_activities, lines 226-234
WindowStart(start_date, days_back, now) ==
    IF Truthy(start_date)
    THEN (IF HasTime(start_date) THEN DateText(start_date, "")
          ELSE DateText(start_date, "T00:00:00Z"))
    ELSE days_ago(IF days_back = NoneInt \/ days_back = 0
                  THEN DefaultDaysBack ELSE days_back, now)
WindowEnd(end_date, now) ==
    IF Truthy(end_date)
    THEN (IF HasTime(end_date) THEN DateText(end_date, "")
          ELSE DateText(end_date, "T23:59:59Z"))
    ELSE isoformat_utc(now)

\* `{"start": start, "end": end, "limit": 25}`
WindowParams(start, end) ==
    [k \in {"start", "end", "limit"} |->
        IF k = "start" THEN start ELSE IF k = "end" THEN end ELSE PageLimit]

\* WhoopClient.get, lines 103-107: the query sent for the caller's params.
Query(params) ==
    IF "next_token" \in DOMAIN params /\ params["next_token"] # NoneStr
    THEN DictSet(DictDel(params, "next_token"), "nextToken", params["next_token"])
    ELSE params

\* WhoopClient.get, lines 103-109: `query` starts as a new dict that params is
\* copied into, so the request carries query and the caller's mapping is, after
\* the call, what it was.
SentInPlace(params) == [query |-> Query(params), params |-> Query(params)]
Sent(params) == [query |-> Query(params), params |-> params]

\* What a call returns or raises.
Returned(data) == [kind |-> "ok", data |-> data]
Raised(exc, status, hint) ==
    [kind |-> "raise", exc |-> exc, status |-> status, hint |-> hint]

\* httpx Response.raise_for_status: any status outside 2xx raises.
IsSuccess(status) == 200 <= status /\ status <= 299

\* WhoopClient.get, lines 110-118: the outcome for a response.
ClientGetNoRateLimit(resp) ==
    IF ~IsSuccess(resp.status) THEN Raised("HTTPStatusError", resp.status, NoneStr)
    ELSE IF resp.body = "json" /\ resp.ctype = JsonCtype THEN Returned(resp.data)
    ELSE Returned(EmptyData)
ClientGet(resp) ==
    IF resp.status = 429
    THEN Raised("RuntimeError", NoneInt,
                IF Truthy(resp.reset) THEN resp.reset ELSE "a short delay")
    ELSE IF ~IsSuccess(resp.status)
    THEN Raised("HTTPStatusError", resp.status, NoneStr)
    ELSE IF resp.body # "empty" /\ resp.ctype = JsonCtype
    THEN (IF resp.body = "malformed" THEN Raised("JSONDecodeError", NoneInt, NoneStr)
          ELSE Returned(resp.data))
    ELSE Returned(EmptyData)

\* The Authorization header of the MCP request: absent, or the text before and
\* after its first space (cred = NoneStr: there is no space in it).
Header(scheme, cred) == [scheme |-> scheme, cred |-> cred]
NoHeader == Header(NoneStr, NoneStr)

\* _bearer_for_upstream, lines 127-135
Bearer(access_token, auth_header) ==
    IF Truthy(access_token) THEN Returned(access_token)
    ELSE IF auth_header = NoHeader \/ auth_header = Header("", NoneStr)
    THEN Raised("RuntimeError", NoneInt, "Authorization header missing from request.")
    ELSE IF auth_header.cred = NoneStr THEN Raised("IndexError", NoneInt, NoneStr)
    ELSE Returned(auth_header.cred)

\* get_activities, lines 241-267: the result keys in the order they are
\* fetched, the endpoint of each, and which ones an activity_type selects.
Stages ==
    << [key |-> "sleep", path |-> SleepPath],
       [key |-> "workouts", path |-> WorkoutPath],
       [key |-> "recovery", path |-> RecoveryPath],
       [key |-> "cycles", path |-> CyclePath] >>
SelectedFirst(activity_type, key) == activity_type = "all" \/ key = "sleep"
Selected(activity_type, key) == activity_type = "all" \/ activity_type = key

\* The first selected stage after stage i (Len(Stages) + 1: none is left).
NextStage(activity_type, i) ==
    LET later == { j \in (i + 1)..Len(Stages) : Selected(activity_type, Stages[j].key) }
    IN IF later = {} THEN Len(Stages) + 1
       ELSE CHOOSE j \in later : \A k \in later : j <= k

ActivityTypes == {"all", "sleep", "workouts", "recovery", "cycles"}

\* get_trends, lines 304-336: the eight paginated fetches, in order.
TrendStages ==
    << [period |-> "current", key |-> "current.recovery", path |-> RecoveryPath],
       [period |-> "current", key |-> "current.sleep", path |-> SleepPath],
       [period |-> "current", key |-> "current.cycles", path |-> CyclePath],
       [period |-> "current", key |-> "current.workouts", path |-> WorkoutPath],
       [period |-> "previous", key |-> "previous.recovery", path |-> RecoveryPath],
       [period |-> "previous", key |-> "previous.sleep", path |-> SleepPath],
       [period |-> "previous", key |-> "previous.cycles", path |-> CyclePath],
       [period |-> "previous", key |-> "previous.workouts", path |-> WorkoutPath] >>
Periods == {"week", "month"}

\* get_daily_update, lines 170-186: the four single requests, in order.
DailyStages ==
    << [key |-> "recovery", path |-> RecoveryPath],
       [key |-> "sleep", path |-> SleepPath],
       [key |-> "recent_cycles", path |-> CyclePath],
       [key |-> "today_workouts", path |-> WorkoutPath] >>

\* The locals of get_daily_update when it gets to a request: `now` is taken at
\* the start, cycles_start before the third request and today_start before
\* the fourth, each reading the clock then.
DailyLocals(stage, locals, t) ==
    IF stage = 1 THEN DictSet(EmptyDict, "now", isoformat_utc(t))
    ELSE IF stage = 3 THEN DictSet(locals, "cycles_start", days_ago(2, t))
    ELSE IF stage = 4 THEN DictSet(locals, "today_start", start_of_day(0, t))
    ELSE locals

\* The params of each request of get_daily_update.
DailyParams(stage, locals) ==
    IF stage <= 2
    THEN [k \in {"limit", "end"} |-> IF k = "limit" THEN 1 ELSE locals["now"]]
    ELSE [k \in {"start", "end", "limit"} |->
             IF k = "limit" THEN 10
             ELSE IF k = "end" THEN locals["now"]
             ELSE IF stage = 3 THEN locals["cycles_start"] ELSE locals["today_start"]]

\* `(data.get("records") or [{}])[0]` for the first two requests and
\* `data.get("records", [])` for the other two.
EmptyRecord == "{}"
DailyValue(stage, data) ==
    IF stage <= 2
    THEN (IF data.records.t = "list" /\ data.records.v # << >>
          THEN data.records.v[1] ELSE EmptyRecord)
    ELSE (IF data.records.t = "absent" THEN << >> ELSE data.records.v)

\* What the upstream serves on one path.
Scripts ==
    { << Ok(Page(ListOf(<<"r1">>), "c1", NoneStr)), Ok(Page(ListOf(<<"r2">>), NoneStr, NoneStr)) >>,
      << Ok(Page(NoRecords, NoneStr, "c2")), Ok(Page(ListOf(<<"r2", "r1">>), "", NoneStr)) >>,
      << Ok(Page(ListOf(<<"r1">>), "c1", NoneStr)), Response(429, "30", JsonCtype, "json", EmptyData) >>,
      << Response(200, NoneStr, NoneStr, "empty", EmptyData) >> }

\* The responses a single profile request can get.
ProfileResponses ==
    { Response(st, rs, JsonCtype, "json", EmptyData) :
          st \in {429}, rs \in {NoneStr, "", "30"} }
    \cup { Response(st, rs, ct, "json", Page(ListOf(<<"r1">>), NoneStr, NoneStr)) :
          st \in {200, 204, 302, 404, 500}, rs \in {NoneStr, "30"},
          ct \in {JsonCtype, "text/html"} }
    \cup { Response(st, NoneStr, ct, b, EmptyData) :
          st \in {200, 204}, ct \in {JsonCtype, NoneStr}, b \in {"empty", "malformed"} }

\* The windows a get_activities request can ask for.
Windows ==
    { [days_back |-> 3, start_date |-> NoneStr, end_date |-> NoneStr],
      [days_back |-> 0, start_date |-> NoneStr, end_date |-> NoneStr],
      [days_back |-> NoneInt, start_date |-> "2025-01-01",
       end_date |-> "2025-01-02T03:04:05Z"],
      [days_back |-> 3, start_date |-> "2025-01-01", end_date |-> NoneStr] }

\* The credentials an MCP request can come with.
Credentials ==
    { [access_token |-> "tokV", auth_header |-> Header("Bearer", "rawH")],
      [access_token |-> NoneStr, auth_header |-> Header("Bearer", "rawH")],
      [access_token |-> "", auth_header |-> Header("rawH", NoneStr)],
      [access_token |-> NoneStr, auth_header |-> Header("Bearer", "")],
      [access_token |-> NoneStr, auth_header |-> NoHeader] }

\* The params mappings a direct caller of _dispatch_get can pass: any of
\* limit, next_token (None, empty or a cursor) and nextToken.
ParamMaps ==
    { [k \in keys |-> IF k = "limit" THEN 1 ELSE IF k = "nextToken" THEN "c2" ELSE c] :
          keys \in SUBSET {"limit", "next_token", "nextToken"},
          c \in {NoneStr, "", "c1"} }

\* The responses a direct call gets.
DirectResponses ==
    { Ok(Page(ListOf(<<"r1">>), NoneStr, NoneStr)),
      Response(429, NoneStr, JsonCtype, "json", EmptyData),
      Response(503, NoneStr, "text/html", "malformed", EmptyData) }

\* The call being served: a tool with its arguments, or _dispatch_get called
\* directly with a params mapping (tool = "_dispatch_get").
NoRequest ==
    [tool |-> NoneStr, activity_type |-> NoneStr, days_back |-> NoneInt,
     start_date |-> NoneStr, end_date |-> NoneStr, params |-> EmptyDict,
     period |-> NoneStr,
     access_token |-> NoneStr, auth_header |-> NoHeader]

\* The tool invocation: where it is, the stage (request or endpoint) of the
\* tool it is in, its locals, the result built so far, what it raised, and the history of its upstream calls.
NoOutcome == [kind |-> NoneStr]
ToolIdle ==
    [pc |-> "idle", stage |-> 0, result |-> EmptyDict, raised |-> NoOutcome,
     path |-> NoneStr, calls |-> << >>, locals |-> EmptyDict]

IdleServer == [p \in Paths |-> << >>]

InitTools ==
    /\ openClients = 0
    /\ tool = [ToolIdle EXCEPT !.pc = "start"]
    /\ pg = PgIdle
    /\ \E cred \in Credentials :
        \/ /\ \E resp \in ProfileResponses :
                  server = [IdleServer EXCEPT ![ProfilePath] = <<resp>>]
           /\ req = [NoRequest EXCEPT !.tool = "get_user_profile",
                        !.access_token = cred.access_token,
                        !.auth_header = cred.auth_header]
        \/ /\ \E resp \in DirectResponses :
                  server = [IdleServer EXCEPT ![CyclePath] = <<resp>>]
           /\ \E params \in ParamMaps :
                  req = [NoRequest EXCEPT !.tool = "_dispatch_get",
                            !.params = params,
                            !.access_token = cred.access_token,
                            !.auth_header = cred.auth_header]
        \/ /\ server \in [Paths -> Scripts]
           /\ server[ProfilePath] = CHOOSE sc \in Scripts : Len(sc) = 1
           /\ \/ req = [NoRequest EXCEPT !.tool = "get_daily_update",
                            !.access_token = cred.access_token,
                            !.auth_header = cred.auth_header]
              \/ \E period \in Periods :
                     req = [NoRequest EXCEPT !.tool = "get_trends",
                               !.period = period,
                               !.access_token = cred.access_token,
                               !.auth_header = cred.auth_header]
        \/ /\ server \in [Paths -> Scripts]
           /\ server[ProfilePath] = CHOOSE sc \in Scripts : Len(sc) = 1
           /\ \E ty \in ActivityTypes, w \in Windows :
                  req = [NoRequest EXCEPT !.tool = "get_activities",
                            !.activity_type = ty, !.days_back = w.days_back,
                            !.start_date = w.start_date, !.end_date = w.end_date,
                            !.access_token = cred.access_token,
                            !.auth_header = cred.auth_header]

\* The tool function up to its first upstream call.
ToolBegin ==
    /\ tool.pc = "start"
    /\ IF req.tool = "get_user_profile"
       THEN /\ tool' = [tool EXCEPT !.pc = "call", !.path = ProfilePath]
            /\ pg' = PgStart(EmptyDict)
       ELSE IF req.tool = "_dispatch_get"
       THEN /\ tool' = [tool EXCEPT !.pc = "call", !.path = CyclePath]
            /\ pg' = PgStart(req.params)
       ELSE IF req.tool = "get_daily_update"
       THEN LET locals == DailyLocals(1, tool.locals, clock)
            IN /\ tool' = [tool EXCEPT !.pc = "call", !.stage = 1,
                              !.path = DailyStages[1].path,
                              !.locals = locals]
               /\ pg' = PgStart(DailyParams(1, locals))
       ELSE IF req.tool = "get_trends"
       THEN LET windows == TrendWindows(req.period, clock)
            IN /\ tool' = [tool EXCEPT !.pc = "call", !.stage = 1,
                              !.path = TrendStages[1].path,
                              !.locals = windows]
               /\ pg' = PgStart(WindowParams(windows.current.start,
                                             windows.current.end))
       ELSE LET start == WindowStart(req.start_date, req.days_back, clock)
                end == WindowEnd(req.end_date, clock)
                first == NextStage(req.activity_type, 0)
                result == DictSet(EmptyDict, "window", [start |-> start, end |-> end])
            IN /\ tool' = [tool EXCEPT !.result = result, !.stage = first,
                              !.pc = IF first > Len(Stages) THEN "return" ELSE "call",
                              !.path = IF first > Len(Stages) THEN NoneStr
                                       ELSE Stages[first].path]
               /\ pg' = PgStart(WindowParams(start, end))
    /\ UNCHANGED <<server, req, openClients>>
    /\ UNCHANGED <<vverifier, voauth, pages>>

\* _dispatch_get up to the await of client.get: resolve the bearer, construct
\* the client, build the query and send the request.
ToolSend ==
    /\ tool.pc = "call"
    /\ pg.calls < MaxFetch
    /\ LET bearer == Bearer(req.access_token, req.auth_header)
           params == CallParams(pg.params, pg.next_token)
       IN IF bearer.kind = "raise"
          THEN /\ tool' = [tool EXCEPT !.pc = "raised", !.raised = bearer]
               /\ UNCHANGED openClients
          ELSE /\ tool' = [tool EXCEPT !.pc = "await",
                              !.calls = Append(@, [path |-> tool.path,
                                                   bearer |-> bearer.data,
                                                   params |-> params,
                                                   after |-> Sent(params).params,
                                                   query |-> Sent(params).query,
                                                   out |-> NoOutcome])]
               /\ openClients' = openClients + 1
    /\ UNCHANGED <<server, req, pg>>
    /\ UNCHANGED <<vverifier, voauth, pages>>

\* The calls made so far on a path.
CallsOn(path) == SelectSeq(tool.calls, LAMBDA c : c.path = path)

\* _dispatch_get, lines 152-155: `finally: await client.aclose()` runs whether
\* client.get returned or raised; the clients left open after it.
AfterFinallyOnReturn(open, out) == IF out.kind = "ok" THEN open - 1 ELSE open
AfterFinally(open, out) == open - 1

\* Nothing between client.get and the tool's caller catches: what get raises
\* ends collect_paginated and the tool, whatever they had accumulated.
AfterRaiseRetry(t, out) == [t EXCEPT !.pc = "call"]
AfterRaise(t, out) == [t EXCEPT !.pc = "raised", !.raised = out]

\* _dispatch_get from the response on: WhoopClient.get's outcome, the client
\* closed in `finally`, and the caller's next step: the tool returns the object
\* (get_user_profile), get_daily_update keeps what it needs and goes on to its
\* next request, or collect_paginated finishes its loop iteration and
\* get_activities / get_trends stores a finished list and moves to its next
\* endpoint.
ToolReceive ==
    /\ tool.pc = "await"
    /\ LET n == Len(CallsOn(tool.path))
           resp == Served(server[tool.path], n)
           out == ClientGet(resp)
           logged == [tool.calls EXCEPT ![Len(tool.calls)].out =
                         [kind |-> out.kind, resp |-> resp, outcome |-> out]]
           st == PgAfterFetch(pg, out.data)
           next == NextStage(req.activity_type, tool.stage)
       IN IF out.kind = "raise"
          THEN /\ tool' = AfterRaise([tool EXCEPT !.calls = logged], out)
               /\ pg' = pg
          ELSE IF req.tool \in {"get_user_profile", "_dispatch_get"}
          THEN /\ tool' = [tool EXCEPT !.pc = "return", !.calls = logged,
                              !.result = DictSet(EmptyDict, "profile", out.data)]
               /\ pg' = pg
          ELSE IF req.tool = "get_daily_update"
          THEN LET stage == tool.stage
                   value == DictSet(tool.result, DailyStages[stage].key,
                                    DailyValue(stage, out.data))
                   locals == DailyLocals(stage + 1, tool.locals, clock)
               IN IF stage < Len(DailyStages)
                  THEN /\ tool' = [tool EXCEPT !.pc = "call", !.calls = logged,
                                     !.result = value, !.stage = stage + 1,
                                     !.path = DailyStages[stage + 1].path,
                                     !.locals = locals]
                       /\ pg' = PgStart(DailyParams(stage + 1, locals))
                  ELSE /\ tool' = [tool EXCEPT !.pc = "return", !.calls = logged,
                                     !.path = NoneStr,
                                     !.result = DictSet(value, "window",
                                         [today_start |-> tool.locals["today_start"],
                                          now |-> tool.locals["now"],
                                          cycles_start |-> tool.locals["cycles_start"]])]
                       /\ pg' = pg
          ELSE IF st.pc = "fetch"
          THEN /\ tool' = [tool EXCEPT !.pc = "call", !.calls = logged]
               /\ pg' = st
          ELSE IF req.tool = "get_trends"
          THEN LET stage == tool.stage
                   value == DictSet(tool.result, TrendStages[stage].key, st.items)
               IN IF stage < Len(TrendStages)
                  THEN LET w == tool.locals[TrendStages[stage + 1].period]
                       IN /\ tool' = [tool EXCEPT !.pc = "call", !.calls = logged,
                                        !.result = value, !.stage = stage + 1,
                                        !.path = TrendStages[stage + 1].path]
                          /\ pg' = PgStart(WindowParams(w.start, w.end))
                  ELSE /\ tool' = [tool EXCEPT !.pc = "return", !.calls = logged,
                                     !.path = NoneStr,
                                     !.result =
                                         DictSet(DictSet(DictSet(value,
                                             "period", req.period),
                                             "current.window", tool.locals["current"]),
                                             "previous.window", tool.locals["previous"])]
                       /\ pg' = pg
          ELSE /\ tool' = [tool EXCEPT !.calls = logged,
                              !.result = DictSet(@, Stages[tool.stage].key, st.items),
                              !.stage = next,
                              !.pc = IF next > Len(Stages) THEN "return" ELSE "call",
                              !.path = IF next > Len(Stages) THEN NoneStr
                                       ELSE Stages[next].path]
               /\ pg' = PgStart(pg.params)
    /\ openClients' = AfterFinally(openClients, ClientGet(Served(server[tool.path],
                                                  Len(CallsOn(tool.path)))))
    /\ UNCHANGED <<server, req>>
    /\ UNCHANGED <<vverifier, voauth, pages>>

\* `return result`
ToolReturn ==
    /\ tool.pc = "return"
    /\ tool' = [tool EXCEPT !.pc = "returned"]
    /\ UNCHANGED <<server, req, pg, openClients>>
    /\ UNCHANGED <<vverifier, voauth, pages>>

(***************************************************************************)
(* Specifications                                                          *)
(***************************************************************************)

IdlePaginate ==
    /\ pages = << >>
    /\ pg = PgIdle
IdleTools ==
    /\ server = IdleServer
    /\ req = NoRequest
    /\ tool = ToolIdle
    /\ openClients = 0
IdleOAuth == InitOAuthWith(NoFile, Configured)

\* The token verifier under concurrently served requests.
NextVerifier ==
    \/ \E token \in BearerTokens : VerifyStart(token)
    \/ \E c \in VCallIds, reply \in ProbeReplies : VerifyProbeReturn(c, reply)
    \/ Tick
StartVerifier == InitVerifier /\ IdleOAuth /\ IdlePaginate /\ IdleTools
SpecVerifier == StartVerifier /\ [][NextVerifier]_vars

\* The OAuth helper server.
NextOAuth ==
    \/ Index
    \/ GetTokens
    \/ \E status \in TestReplies : TestApi(status)
    \/ \E nonce \in Nonces, key \in Keys : Authorize(nonce, key)
    \/ \E args \in CallbackArgs : CallbackBegin(args)
    \/ RefreshBegin
    \/ \E h \in BagToSet(hcalls) : TokenEndpointReply(h)
    \/ \E h \in BagToSet(hcalls), saveOk \in BOOLEAN : CallbackReturn(h, saveOk)
    \/ \E h \in BagToSet(hcalls), saveOk \in BOOLEAN : RefreshReturn(h, saveOk)
    \/ \E ok \in BOOLEAN : ClearTokens(ok)
StartOAuth == InitOAuth /\ InitVerifier /\ IdlePaginate /\ IdleTools
SpecOAuth == StartOAuth /\ [][NextOAuth]_vars

\* collect_paginated against a scripted fetch.
NextPaginate ==
    \/ PaginateFetch
    \/ PaginateReturn
StartPaginate == InitPaginate /\ InitVerifier /\ IdleOAuth /\ IdleTools
SpecPaginate == StartPaginate /\ [][NextPaginate]_vars

\* One MCP tool call against the upstream API.
Next ==
    \/ ToolBegin
    \/ ToolSend
    \/ ToolReceive
    \/ ToolReturn
Init == InitTools /\ InitVerifier /\ IdleOAuth /\ pages = << >>
Spec == Init /\ [][Next]_vars

(***************************************************************************)
(* Properties of WhoopTokenVerifier (SpecVerifier)                         *)
(***************************************************************************)

Started(c) == vcalls[c].st # "idle"

\* C1 (as amended): while the cache entry of a token is the one stored by a
\* verify call that read the clock at t and whose probe returned 200, a verify
\* of that token that starts at now < t + TTL returns a valid credential
\* without a probe, and one that starts at now >= t + TTL (or with no entry
\* stored) issues a probe.
C1_CacheWindow ==
    \A c \in VCallIds : Started(c) =>
        LET t == vcalls[c].seenWriter
            live == t # NoneInt /\ vcalls[c].now < t + CacheTtl
        IN /\ live => (~vcalls[c].probed /\ vcalls[c].result = "valid")
           /\ ~live => vcalls[c].probed

\* A cache hit inside the window, and a new probe of the same token after it.
C1_Witness ==
    \E c, d \in VCallIds :
        /\ Started(c) /\ ~vcalls[c].probed
        /\ Started(d) /\ vcalls[d].probed /\ vcalls[d].token = vcalls[c].token
        /\ vcalls[d].seenWriter # NoneInt
        /\ vcalls[d].now >= vcalls[d].seenWriter + CacheTtl

\* C1 (as stated): after a verify call of a token whose probe returned 200,
\* with t the time of that call, every later verify of the token that starts at
\* now < t + TTL returns without a probe, and one that starts at
\* now >= t + TTL probes. (t is taken as early as the claim can mean it: the
\* clock reading of the call, not the later arrival of the probe's answer.)
C1_AsStated ==
    \A c \in VCallIds : (Started(c) /\ vcalls[c].seenOk # NoneInt) =>
        /\ vcalls[c].now < vcalls[c].seenOk + CacheTtl => ~vcalls[c].probed
        /\ vcalls[c].now >= vcalls[c].seenOk + CacheTtl => vcalls[c].probed

C2_RefreshFailureKeepsRecord ==
    (last.op = "refresh" /\ last.phase = "return" /\ last.reply.status # 200) =>
        /\ tokens = last.before
        /\ last.resp.code >= 400
        /\ last.reply.status # RaisedStatus =>
               /\ last.resp.kind = "refresh_failed"
               /\ last.resp.status = last.reply.status
               /\ last.resp.body = last.reply.body

\* A refresh of an existing record failed upstream with 400.
C2_Witness ==
    /\ last.op = "refresh" /\ last.phase = "return" /\ last.reply.status = 400
    /\ last.before.exists /\ last.resp.code = 400

\* C8: /callback issues the code exchange only if the state it was given is a
\* nonce an earlier /authorize has generated.
C8_StateBinding ==
    (last.op = "callback" /\ last.exchanged) => last.state \in sentStates

\* C9: a refresh never saves a token set older than one a refresh has
\* already saved.
C9_NoStaleRefreshWrite ==
    (last.op = "refresh" /\ last.phase = "return" /\ last.resp.code = 302
        /\ last.gen # NoneInt)
    => last.gen > last.newestBefore

\* C10 (as amended): a callback with a non-empty error parameter fails with the
\* authorization-denied error carrying that value; a callback with no code (or
\* an empty one) fails; neither issues an exchange nor changes the token file.
C10_CallbackRejection ==
    (last.op = "callback" /\ last.phase = "begin") =>
        /\ Truthy(last.error) =>
               /\ last.resp = [code |-> 400, kind |-> "oauth_error", error |-> last.error]
               /\ ~last.exchanged /\ tokens = last.before
        /\ ~Truthy(last.code) =>
               /\ last.resp.code = 400
               /\ ~last.exchanged /\ tokens = last.before

\* A callback carrying both an error and a code was rejected.
C10_Witness ==
    /\ last.op = "callback" /\ last.phase = "begin"
    /\ Truthy(last.error) /\ Truthy(last.code)
    /\ last.resp.kind = "oauth_error" /\ ~last.exchanged

\* C10 (as stated): a callback that carries an error parameter fails with the
\* authorization-denied error carrying it and issues no exchange.
C10_AsStated ==
    (last.op = "callback" /\ last.phase = "begin" /\ last.error # NoneStr) =>
        /\ last.resp.code = 400
        /\ ~last.exchanged

(***************************************************************************)
(* Properties of collect_paginated (SpecPaginate)                          *)
(***************************************************************************)

\* A page carries a cursor when either spelling of it is truthy.
CarriesCursor(p) == Truthy(p.next_token) \/ Truthy(p.nextToken)

\* The index of the first page of a script that carries no cursor (0: every
\* page carries one).
LastPage(script) ==
    LET ends == { i \in DOMAIN script : ~CarriesCursor(script[i]) }
    IN IF ends = {} THEN 0 ELSE CHOOSE i \in ends : \A j \in ends : i <= j

\* records(p): the list under "records", empty when there is none.
RecordList(p) == IF p.records.t = "list" THEN p.records.v ELSE << >>
HasRecordList(p) == p.records.t \in {"list", "absent"}

\* records(p1) ++ ... ++ records(pk)
RECURSIVE Concatenation(_, _)
Concatenation(script, k) ==
    IF k = 0 THEN << >>
    ELSE Concatenation(script, k - 1) \o RecordList(script[k])

\* C3: when the pages p1..p(k-1) served carry a truthy cursor and pk carries
\* none (each page's records being a list, or missing), fetch is called
\* exactly k times, never more, and the list returned is
\* records(p1) ++ ... ++ records(pk), in upstream order.
C3_Concatenation ==
    LET k == LastPage(pages)
    IN (k > 0 /\ \A i \in 1..k : HasRecordList(pages[i])) =>
        /\ pg.calls <= k
        /\ pg.pc = "fetch" => pg.calls < k
        /\ pg.pc \in {"done", "returned"} =>
            /\ pg.calls = k
            /\ pg.items = Concatenation(pages, k)

\* Three pages, the cursor of one spelled nextToken only, returned in order.
C3_Witness ==
    /\ pg.pc = "returned"
    /\ LastPage(pages) = 3
    /\ \A i \in 1..3 : HasRecordList(pages[i])
    /\ \E i \in 1..2 : ~Truthy(pages[i].next_token) /\ Truthy(pages[i].nextToken)
    /\ pages[1].records # pages[2].records
    /\ pg.calls = 3
    /\ Len(pg.items) >= 3
    /\ pg.items = RecordList(pages[1]) \o RecordList(pages[2]) \o RecordList(pages[3])

\* C4: with a fetch that returns a truthy cursor on every call, the paginator
\* makes no more than the default maximum of fetch calls.
C4_PageBound ==
    (pages # << >> /\ \A i \in DOMAIN pages : CarriesCursor(pages[i])) =>
        pg.calls <= DefaultMaxPages

(***************************************************************************)
(* Properties of WhoopClient.get and the tools (Spec)                      *)
(***************************************************************************)

\* The upstream calls that have been answered.
Answered == { i \in DOMAIN tool.calls : tool.calls[i].out.kind # NoneStr }
GenericHint == "a short delay"

\* C5: a 429 response raises the rate-limit error, carrying the value of
\* X-RateLimit-Reset when the header is present and non-empty and the generic
\* hint otherwise; any other status outside 2xx raises the upstream error
\* carrying that status; a 429 is never reported as the upstream error, no
\* status outside 2xx gives a normal return, and the tool fails with the error.
C5_Classification ==
    \A i \in Answered :
        LET r == tool.calls[i].out.resp
            o == tool.calls[i].out.outcome
        IN /\ r.status = 429 =>
                /\ o.kind = "raise"
                /\ o.exc = "RuntimeError"
                /\ o.hint = IF r.reset \notin {NoneStr, ""} THEN r.reset ELSE GenericHint
           /\ (r.status # 429 /\ r.status \notin 200..299) =>
                /\ o.kind = "raise"
                /\ o.exc = "HTTPStatusError"
                /\ o.status = r.status
           /\ r.status \notin 200..299 =>
                /\ o.kind # "ok"
                /\ tool.pc = "raised"
                /\ tool.raised = o
                /\ i = Len(tool.calls)

\* A 429 whose reset header is present and empty: the generic hint.
C5_Witness ==
    /\ tool.pc = "raised"
    /\ tool.calls # << >>
    /\ LET c == tool.calls[Len(tool.calls)]
       IN /\ c.out.kind = "raise"
          /\ c.out.resp.status = 429
          /\ c.out.resp.reset = ""
          /\ tool.raised.exc = "RuntimeError"
          /\ tool.raised.hint = GenericHint

\* C5 as worded: whenever the header is present, its value is carried.
C5_AsStated ==
    \A i \in Answered :
        LET r == tool.calls[i].out.resp
            o == tool.calls[i].out.outcome
        IN (r.status = 429 /\ r.reset # NoneStr) =>
               (o.kind = "raise" /\ o.exc = "RuntimeError" /\ o.hint = r.reset)

\* The data keys an activity_type selects, and the endpoint of each.
DataKeys == {"sleep", "workouts", "recovery", "cycles"}
SelectedKeys(T) == IF T = "all" THEN DataKeys ELSE {T}
Endpoint(key) ==
    CASE key = "sleep" -> SleepPath
      [] key = "workouts" -> WorkoutPath
      [] key = "recovery" -> RecoveryPath
      [] key = "cycles" -> CyclePath

\* The pages an endpoint serves, as the JSON objects of its responses.
PagesOf(script) ==
    [i \in DOMAIN script |->
        IF script[i].body = "json" THEN script[i].data ELSE EmptyData]
Exhaustion(script) ==
    Concatenation(PagesOf(script), LastPage(PagesOf(script)))

\* C6: get_activities calls only the endpoints its activity_type selects, each
\* call carrying the window's start and end and limit 25; what it returns has
\* the key "window" and exactly the selected data keys, each holding the
\* endpoint's pages paginated to exhaustion.
C6_ResultShape ==
    req.tool = "get_activities" =>
        LET keys == SelectedKeys(req.activity_type)
        IN /\ \A i \in DOMAIN tool.calls :
                LET c == tool.calls[i]
                IN /\ c.path \in { Endpoint(k) : k \in keys }
                   /\ {"start", "end", "limit"} \subseteq DOMAIN c.query
                   /\ DOMAIN c.query \subseteq {"start", "end", "limit", "nextToken"}
                   /\ c.query["limit"] = 25
                   /\ c.query["start"] = tool.result["window"].start
                   /\ c.query["end"] = tool.result["window"].end
           /\ tool.pc \in {"return", "returned"} =>
                /\ DOMAIN tool.result = {"window"} \cup keys
                /\ \A k \in keys :
                    /\ tool.result[k] = Exhaustion(server[Endpoint(k)])
                    /\ Len(CallsOn(Endpoint(k))) = LastPage(PagesOf(server[Endpoint(k)]))

\* A workouts query over two pages: one data key, two calls, nothing else.
C6_Witness ==
    /\ req.tool = "get_activities"
    /\ req.activity_type = "workouts"
    /\ tool.pc = "returned"
    /\ DOMAIN tool.result = {"window", "workouts"}
    /\ Len(tool.result["workouts"]) >= 2
    /\ Len(tool.calls) = 2
    /\ \A i \in 1..2 : tool.calls[i].path = WorkoutPath
    /\ "nextToken" \in DOMAIN tool.calls[2].query

(***************************************************************************)
(* Further properties of the OAuth helper (SpecOAuth)                      *)
(***************************************************************************)

\* A credential of the helper that is not configured: unset, or set empty.
Unset(s) == s = NoneStr \/ s = ""

\* C11: an /authorize served while the client id or the client secret is not
\* configured answers with the configuration error, redirects nowhere and
\* generates nothing (no nonce, no key); served with both configured it
\* redirects to the upstream authorization URL with response_type=code, the
\* client id, the redirect URI, the scopes and the nonce it has just generated.
C11_AuthorizeGuard ==
    [][\A nonce \in Nonces, key \in Keys : Authorize(nonce, key) =>
        IF Unset(config.client_id) \/ Unset(config.client_secret)
        THEN /\ last'.resp = [code |-> 400, kind |-> "not_configured"]
             /\ sentStates' = sentStates
             /\ secret_key' = secret_key
             /\ tokens' = tokens
        ELSE /\ last'.resp.code = 302
             /\ last'.resp.kind = "redirect"
             /\ last'.resp.location =
                    [url |-> "/oauth/oauth2/auth", response_type |-> "code",
                     client_id |-> config.client_id,
                     redirect_uri |-> "http://localhost:8080/callback",
                     scope |-> "SCOPES", state |-> nonce]
             /\ sentStates' = sentStates \cup {nonce}
             /\ tokens' = tokens]_vars

\* An /authorize that redirected with the configured client id and its nonce.
C11_Witness ==
    /\ last.op = "authorize"
    /\ last.resp.code = 302
    /\ last.resp.location.client_id = "id"
    /\ last.resp.location.response_type = "code"
    /\ last.resp.location.state \in sentStates
    /\ secret_key # NoneStr

\* The mapping a params mapping is sent as: next_token, when it is there and
\* not None, goes under nextToken with its value, and nothing else changes.
Renamed(params) ==
    IF "next_token" \in DOMAIN params /\ params["next_token"] # NoneStr
    THEN [k \in (DOMAIN params \ {"next_token"}) \cup {"nextToken"} |->
             IF k = "nextToken" THEN params["next_token"] ELSE params[k]]
    ELSE params

\* C12: the query of every upstream request is the caller's params with
\* next_token, when present and not None, moved to nextToken with its value
\* and every other key and value as given; the caller's mapping is after the
\* call what it was before; no cursor other than None goes out as next_token.
C12_CursorRenaming ==
    \A i \in DOMAIN tool.calls :
        LET c == tool.calls[i]
        IN /\ c.query = Renamed(c.params)
           /\ c.after = c.params
           /\ "next_token" \in DOMAIN c.query => c.query["next_token"] = NoneStr
           /\ \A k \in DOMAIN c.params \ {"next_token", "nextToken"} :
                  k \in DOMAIN c.query /\ c.query[k] = c.params[k]

\* A direct call whose params had a limit and a cursor under next_token.
C12_Witness ==
    /\ req.tool = "_dispatch_get"
    /\ tool.pc = "returned"
    /\ Len(tool.calls) = 1
    /\ DOMAIN tool.calls[1].params = {"limit", "next_token"}
    /\ tool.calls[1].params["next_token"] = "c1"
    /\ DOMAIN tool.calls[1].query = {"limit", "nextToken"}
    /\ tool.calls[1].query["nextToken"] = "c1"
    /\ tool.calls[1].query["limit"] = 1

\* C13: every 2xx response gives a normal return, whatever its body, and a body
\* that is empty, not of a JSON content type, or malformed gives the empty
\* object.
C13_BodyTolerance ==
    \A i \in Answered :
        LET r == tool.calls[i].out.resp
            o == tool.calls[i].out.outcome
        IN r.status \in 200..299 =>
            /\ o.kind = "ok"
            /\ (r.body \in {"empty", "malformed"} \/ r.ctype # JsonCtype) =>
                   o.data = EmptyData

\* The credential of the request: the verified access token when there is one,
\* or else the credential part of the Authorization header (NoneStr: none).
UsableToken ==
    IF Truthy(req.access_token) THEN req.access_token
    ELSE IF req.auth_header # NoHeader /\ Truthy(req.auth_header.cred)
    THEN req.auth_header.cred
    ELSE NoneStr
MissingCredential ==
    Raised("RuntimeError", NoneInt, "Authorization header missing from request.")

\* C14: every upstream request carries the verified access token when there
\* is one and otherwise the credential of the Authorization header; when there
\* is neither (no token, and no header or a header without a credential), the
\* call fails with the missing-credential error and no request is made.
C14_CredentialResolution ==
    /\ \A i \in DOMAIN tool.calls :
           UsableToken # NoneStr /\ tool.calls[i].bearer = UsableToken
    /\ (UsableToken = NoneStr /\ tool.pc \notin {"start", "call"}) =>
           /\ tool.pc = "raised"
           /\ tool.raised = MissingCredential
           /\ tool.calls = << >>

\* The upstream calls that are waiting for their response.
InFlight == { i \in DOMAIN tool.calls : tool.calls[i].out.kind = NoneStr }

\* C15: a client is open exactly while its _dispatch_get is waiting for the
\* response: it is closed, once, when the call returns and when it raises
\* (429, another status outside 2xx, an exception), and no client is open
\* once the tool call has returned or failed, however many pages it fetched.
C15_ClientRelease ==
    /\ openClients = Cardinality(InFlight)
    /\ openClients \in {0, 1}
    /\ tool.pc \in {"return", "returned", "raised"} => openClients = 0

\* A paginated call that failed on its second page with a 429.
C15_Witness ==
    /\ tool.pc = "raised"
    /\ Len(tool.calls) = 2
    /\ tool.calls[1].out.kind = "ok"
    /\ tool.calls[2].out.kind = "raise"
    /\ tool.calls[2].out.resp.status = 429
    /\ openClients = 0

(***************************************************************************)
(* Further properties of collect_paginated (SpecPaginate)                  *)
(***************************************************************************)

\* The page the n-th call of fetch was answered with.
ServedPage(n) == pages[IF n <= Len(pages) THEN n ELSE Len(pages)]

\* What a page adds to the accumulator: nothing when it has no records or its
\* records value is no sequence, and the elements of the sequence otherwise.
Contribution(p) ==
    IF p.records.t \in {"absent", "int"} THEN << >> ELSE p.records.v

RECURSIVE Accumulated(_)
Accumulated(n) ==
    IF n = 0 THEN << >> ELSE Accumulated(n - 1) \o Contribution(ServedPage(n))

\* C16: a page without records, or with records that is no sequence, adds
\* nothing to the accumulator, which holds the elements of the records
\* sequences served and nothing else; whether another page is fetched depends
\* on the cursor of the page alone.
C16_RecordsTolerance ==
    pages # << >> =>
        /\ pg.items = Accumulated(pg.calls)
        /\ \A i \in 1..Len(pg.items) :
               \E n \in 1..pg.calls :
                   \E j \in 1..Len(ServedPage(n).records.v) :
                       /\ ServedPage(n).records.t \in {"list", "str"}
                       /\ pg.items[i] = ServedPage(n).records.v[j]
        /\ \A n \in 1..(pg.calls - 1) : CarriesCursor(ServedPage(n))
        /\ pg.calls > 0 => (pg.pc = "fetch" <=> CarriesCursor(ServedPage(pg.calls)))

\* A page with a number for records, a page without records, then a list.
C16_Witness ==
    /\ pg.pc = "returned"
    /\ pg.calls = 3
    /\ Len(pages) = 3
    /\ pages[1].records = NumberValue
    /\ pages[2].records = NoRecords
    /\ pages[3].records.t = "list"
    /\ pg.items = pages[3].records.v

(***************************************************************************)
(* Further properties of WhoopTokenVerifier (SpecVerifier)                 *)
(***************************************************************************)

\* Call d probed the upstream for its token and got a 200.
Probed200(d) == vcalls[d].st = "done" /\ vcalls[d].probed /\ vcalls[d].status = 200

\* C17: however verify calls interleave, a call reports its token valid only
\* if a probe for that same token returned 200 and the call started less than
\* TTL after (and not before) the start of the call that made the probe; every
\* cache entry expires at the start time of a call that got a 200 for that
\* token, plus TTL; and a call answered from the cache started less than TTL
\* after the latest start of a 200-probing call of its token.
C17_BoundedTrust ==
    /\ \A c \in VCallIds : vcalls[c].result = "valid" =>
           \E d \in VCallIds :
               /\ Probed200(d)
               /\ vcalls[d].token = vcalls[c].token
               /\ vcalls[d].now <= vcalls[c].now
               /\ vcalls[c].now < vcalls[d].now + CacheTtl
    /\ \A token \in DOMAIN cache :
           \E d \in VCallIds :
               /\ Probed200(d)
               /\ vcalls[d].token = token
               /\ cache[token].expires_at = vcalls[d].now + CacheTtl
    /\ \A c \in VCallIds : (vcalls[c].result = "valid" /\ ~vcalls[c].probed) =>
           /\ vcalls[c].seenOk # NoneInt
           /\ vcalls[c].now < vcalls[c].seenOk + CacheTtl

\* A call answered from the cache one tick after the call that probed, while
\* a call for the other token, probed after that 200, was refused.
C17_Witness ==
    \E c, d, e \in VCallIds :
        /\ Probed200(d)
        /\ vcalls[c].token = vcalls[d].token
        /\ vcalls[c].result = "valid" /\ ~vcalls[c].probed
        /\ vcalls[c].now = vcalls[d].now + 1
        /\ vcalls[e].token # vcalls[d].token
        /\ vcalls[e].now >= vcalls[d].now
        /\ vcalls[e].st = "done" /\ vcalls[e].result = "invalid"

(***************************************************************************)
(* Frame of the token record (SpecOAuth)                                   *)
(***************************************************************************)

ReadOnlyOps == {"index", "authorize", "tokens", "test_api", "token_endpoint"}
CallbackReturned == last.op = "callback" /\ last.phase = "return"
RefreshReturned == last.op = "refresh" /\ last.phase = "return"

\* C18: a step changes the token record only if it is the return of a
\* /callback whose exchange got a 200, the return of a /refresh_token whose
\* refresh got a 200, or a /clear_tokens; /, /authorize, /tokens, /test_api,
\* a rejected callback and a callback whose exchange got no 200 leave it as
\* it was. After a callback that succeeded the record is the exchange's
\* response with expires_at = now + expires_in (3600 when there is none).
C18_Frame ==
    last.op # NoneStr =>
        /\ tokens # last.before =>
               \/ CallbackReturned /\ last.reply.status = 200
               \/ RefreshReturned /\ last.reply.status = 200
               \/ last.op = "clear"
        /\ last.op \in ReadOnlyOps => tokens = last.before
        /\ (last.op = "callback" /\ last.phase = "begin") => tokens = last.before
        /\ (CallbackReturned /\ last.reply.status # 200) => tokens = last.before
        /\ (CallbackReturned /\ last.resp.code = 302) =>
               /\ last.reply.status = 200
               /\ last.reply.body.kind = "tokens"
               /\ tokens =
                    [exists |-> TRUE,
                     access_token |-> last.reply.body.access_token,
                     refresh_token |-> last.reply.body.refresh_token,
                     expires_in |-> last.reply.body.expires_in,
                     expires_at |-> clock + (IF last.reply.body.expires_in = NoneInt
                                             THEN 3600
                                             ELSE last.reply.body.expires_in)]

\* A callback that replaced an older record with a response that had no
\* expires_in.
C18_Witness ==
    /\ CallbackReturned
    /\ last.resp.code = 302
    /\ last.before.exists
    /\ tokens # last.before
    /\ last.reply.body.expires_in = NoneInt
    /\ tokens.expires_at = clock + 3600

\* The cursor a response returns: its next_token when truthy, or else its
\* nextToken.
CursorOf(p) == IF Truthy(p.next_token) THEN p.next_token ELSE p.nextToken

\* C19: the first call of fetch carries the base parameters and nothing else;
\* the n-th call, n > 1, carries the base parameters and next_token = the
\* cursor of the response to call n - 1, whatever older responses returned;
\* the caller's mapping stays what it was.
C19_CursorThreading ==
    pages # << >> =>
        /\ Len(pg.sent) = pg.calls
        /\ pg.calls >= 1 => pg.sent[1] = BaseParams
        /\ \A n \in 2..pg.calls :
               pg.sent[n] =
                   [k \in DOMAIN BaseParams \cup {"next_token"} |->
                       IF k = "next_token" THEN CursorOf(ServedPage(n - 1))
                       ELSE BaseParams[k]]
        /\ pg.base_params = BaseParams

\* Three calls, the second with the first response's cursor and the third
\* with the second's, which differs and was spelled nextToken.
C19_Witness ==
    /\ pg.pc = "returned"
    /\ pg.calls = 3
    /\ Len(pages) = 3
    /\ DOMAIN pg.sent[1] = {"limit"}
    /\ pg.sent[2]["next_token"] = "c1"
    /\ pg.sent[3]["next_token"] = "c2"
    /\ pages[2].next_token = ""

(***************************************************************************)
(* Failure of an upstream call within a tool invocation (Spec)             *)
(***************************************************************************)

\* The upstream calls that were answered with a status outside 2xx.
Failed ==
    { i \in Answered : tool.calls[i].out.resp.status \notin 200..299 }

\* C20: an upstream call that failed with the rate-limit error or another
\* upstream error is the last call of the invocation (no retry, no further
\* page, no further endpoint), and the invocation has ended with that error,
\* not with what it had accumulated.
C20_NoRetryNoPartial ==
    \A i \in Failed :
        /\ i = Len(tool.calls)
        /\ tool.calls[i].out.kind = "raise"
        /\ tool.pc = "raised"
        /\ tool.raised = tool.calls[i].out.outcome
        /\ tool.raised.exc \in {"RuntimeError", "HTTPStatusError"}

\* get_trends that had finished an endpoint and a first page of the next
\* when the second page was answered 429: three calls out of at least eight.
C20_Witness ==
    /\ req.tool = "get_trends"
    /\ tool.pc = "raised"
    /\ tool.stage = 2
    /\ "current.recovery" \in DOMAIN tool.result
    /\ Len(tool.calls) = 3
    /\ Failed = {3}
    /\ tool.calls[2].path = tool.calls[3].path
    /\ tool.raised.exc = "RuntimeError"

(***************************************************************************)
(* Refresh over the life of the token record (SpecOAuth)                   *)
(***************************************************************************)

\* A field of a token endpoint response (NoneInt: the response has none).
BodyField(body, f) == IF body.kind = "tokens" THEN body[f] ELSE NoneInt

\* A response with expires_at = now + expires_in (3600 without expires_in),
\* as a record of the file.
ResponseWithExpiry(body, now) ==
    [exists |-> TRUE,
     access_token |-> BodyField(body, "access_token"),
     refresh_token |-> BodyField(body, "refresh_token"),
     expires_in |-> BodyField(body, "expires_in"),
     expires_at |-> now + (IF BodyField(body, "expires_in") = NoneInt
                           THEN 3600 ELSE BodyField(body, "expires_in"))]

\* The latest step is a /refresh_token that got a 200 and wrote the file.
RefreshSaved == RefreshReturned /\ last.resp.code = 302

RefreshBegan == last.op = "refresh" /\ last.phase = "begin"

\* /refresh_token against the record it finds: it contacts the token endpoint
\* only with a record that has a refresh_token, sending that one, and
\* otherwise fails and leaves the file alone.
C22_Guard ==
    RefreshBegan =>
        /\ last.exchanged =>
               /\ last.before.exists
               /\ last.before.refresh_token # NoneInt
               /\ last.sent_refresh = last.before.refresh_token
        /\ (~last.before.exists \/ last.before.refresh_token = NoneInt) =>
               /\ ~last.exchanged
               /\ last.resp = [code |-> 400, kind |-> "no_refresh_token"]
        /\ tokens = last.before

\* C22: /refresh_token contacts the token endpoint only when there is a
\* record with a refresh_token, and sends that one; with no record or no
\* refresh_token in it, it fails, sends nothing and leaves the file alone;
\* and there is no record, so it fails, from the start and from a
\* /clear_tokens on until a callback has succeeded.
C22_RefreshPrecondition ==
    /\ C22_Guard
    /\ cleared => ~tokens.exists
    /\ (RefreshBegan /\ cleared) => ~last.exchanged


\* The window get_activities computed, once it has.
HasWindow == req.tool = "get_activities" /\ "window" \in DOMAIN tool.result

\* C23: get_activities called with an integer days_back n >= 0 and no
\* start_date has the window start now minus n days; with no end_date the
\* window end is now; a start_date, when given, is the start whatever
\* days_back is.
C23_DaysBackWindow ==
    HasWindow =>
        LET window == tool.result["window"]
        IN /\ (req.start_date = NoneStr /\ req.days_back # NoneInt
                 /\ req.days_back >= 0) =>
                  window.start = days_ago(req.days_back, clock)
           /\ req.end_date = NoneStr => window.end = isoformat_utc(clock)
           /\ req.start_date # NoneStr =>
                  /\ window.start # days_ago(DefaultDaysBack, clock)
                  /\ req.days_back # NoneInt =>
                         window.start # days_ago(req.days_back, clock)
                  /\ window.start.text = req.start_date


\* The text t occurs in the text s.
Contains(s, t) ==
    \E i \in 0..(Len(s) - Len(t)) : SubSeq(s, i + 1, i + Len(t)) = t
\* The latest step is a GET /tokens that found a record.
TokensShown == last.op = "tokens" /\ last.resp.kind = "safe_tokens"

\* C24: the body GET /tokens answers with contains neither the whole
\* access_token nor the whole refresh_token of the record, whatever their
\* lengths, and the call leaves the record as it was.
C24_NoFullCredential ==
    TokensShown =>
        /\ tokens = last.before
        /\ tokens.exists
        /\ tokens.access_token # NoneInt =>
               ~Contains(last.resp.access_token, TokenText(tokens.access_token))
        /\ tokens.refresh_token # NoneInt =>
               ~Contains(last.resp.refresh_token, TokenText(tokens.refresh_token))

====
